---- MODULE Spec2Model ----
(***************************************************************************)
(* Model of services/payment-processor/parse-instruction.js: the payment   *)
(* instruction parser, its business-rule validator, the execution          *)
(* scheduler and the balance projector.                                    *)
(*                                                                         *)
(* A JavaScript string is modelled as the sequence of its characters (a    *)
(* tuple of one-character strings), so that split, trim, includes,         *)
(* toLowerCase, toUpperCase, parseInt and the date pattern are computed    *)
(* character by character as the code computes them.                       *)
(***************************************************************************)
EXTENDS Integers, Sequences, FiniteSets, TLC

(***************************************************************************)
(* Bounds of the model.                                                    *)
(***************************************************************************)
\* longest accounts list of a request
MaxAccounts == 3
\* largest amount of an instruction and largest balance of an account
MaxAmount == 1
\* days of the calendar window the clock and the execute_by dates range over
MaxDay == 3

(***************************************************************************)
(* JavaScript values that are not strings.  Each is a one-element tuple    *)
(* holding a multi-character string, so no string (a tuple of single       *)
(* characters) equals it.                                                  *)
(***************************************************************************)
Undefined == <<"undefined">>
Null == <<"null">>

(***************************************************************************)
(* Characters.                                                             *)
(***************************************************************************)
LowerLetters ==
  <<"a","b","c","d","e","f","g","h","i","j","k","l","m",
    "n","o","p","q","r","s","t","u","v","w","x","y","z">>
UpperLetters ==
  <<"A","B","C","D","E","F","G","H","I","J","K","L","M",
    "N","O","P","Q","R","S","T","U","V","W","X","Y","Z">>
Digits == <<"0","1","2","3","4","5","6","7","8","9">>

Range(s) == { s[i] : i \in DOMAIN s }

IndexIn(s, c) == CHOOSE i \in DOMAIN s : s[i] = c

UpperToLower == [ c \in Range(UpperLetters) |-> LowerLetters[IndexIn(UpperLetters, c)] ]
LowerToUpper == [ c \in Range(LowerLetters) |-> UpperLetters[IndexIn(LowerLetters, c)] ]
DigitValue == [ c \in Range(Digits) |-> IndexIn(Digits, c) - 1 ]

IsDigit(c) == c \in DOMAIN DigitValue

\* String.prototype.toLowerCase
ToLowerCase(s) ==
  [ i \in DOMAIN s |-> IF s[i] \in DOMAIN UpperToLower THEN UpperToLower[s[i]] ELSE s[i] ]

\* String.prototype.toUpperCase
ToUpperCase(s) ==
  [ i \in DOMAIN s |-> IF s[i] \in DOMAIN LowerToUpper THEN LowerToUpper[s[i]] ELSE s[i] ]

\* String.prototype.includes
Includes(s, p) ==
  \E k \in 0..(Len(s) - Len(p)) : \A j \in 1..Len(p) : s[k + j] = p[j]

Whitespace == {" ", "\t", "\n"}

\* String.prototype.trim
Trim(s) ==
  LET keep == { i \in DOMAIN s : s[i] \notin Whitespace }
  IN  IF keep = {} THEN <<>>
      ELSE LET first == CHOOSE i \in keep : \A j \in keep : i <= j
               last  == CHOOSE i \in keep : \A j \in keep : j <= i
           IN  SubSeq(s, first, last)

RECURSIVE SplitFrom(_, _, _)
\* the pieces of s from position i on, cur being the piece read so far
SplitFrom(s, i, cur) ==
  IF i > Len(s) THEN <<cur>>
  ELSE IF s[i] = " " THEN <<cur>> \o SplitFrom(s, i + 1, <<>>)
  ELSE SplitFrom(s, i + 1, Append(cur, s[i]))

\* instruction.split(' ')
Split(s) == SplitFrom(s, 1, <<>>)

\* .filter((word) => word.length > 0)
FilterNonEmpty(ws) == SelectSeq(ws, LAMBDA w : Len(w) > 0)

\* words[i] of a JavaScript array (indices from 0): undefined out of range
At(words, i) == IF i >= 0 /\ i < Len(words) THEN words[i + 1] ELSE Undefined

RECURSIVE DigitsFrom(_, _, _)
\* the value of the run of decimal digits of s starting at position i
DigitsFrom(s, i, acc) ==
  IF i <= Len(s) /\ IsDigit(s[i])
  THEN DigitsFrom(s, i + 1, 10 * acc + DigitValue[s[i]])
  ELSE acc

\* parseInt(str, 10): an optional sign, then the leading run of digits;
\* NaN when there is none (and for undefined)
ParseInt(str) ==
  IF str = Undefined THEN [nan |-> TRUE, value |-> 0]
  ELSE LET signed == Len(str) >= 1 /\ str[1] \in {"-", "+"}
           start  == IF signed THEN 2 ELSE 1
           sign   == IF signed /\ str[1] = "-" THEN -1 ELSE 1
       IN  IF start <= Len(str) /\ IsDigit(str[start])
           THEN [nan |-> FALSE, value |-> sign * DigitsFrom(str, start, 0)]
           ELSE [nan |-> TRUE, value |-> 0]

(***************************************************************************)
(* String literals of the source.                                          *)
(***************************************************************************)
Debit == <<"d","e","b","i","t">>
Credit == <<"c","r","e","d","i","t">>
From == <<"f","r","o","m">>
To == <<"t","o">>
For == <<"f","o","r">>
On == <<"o","n">>
Account == <<"a","c","c","o","u","n","t">>
Space == <<" ">>

FromAccount == From \o Space \o Account
ForCreditToAccount == For \o Space \o Credit \o Space \o To \o Space \o Account
ToAccount == To \o Space \o Account
ForDebitFromAccount == For \o Space \o Debit \o Space \o From \o Space \o Account

NGN == <<"N","G","N">>
USD == <<"U","S","D">>
GBP == <<"G","B","P">>
GHS == <<"G","H","S">>

SUPPORTED_CURRENCIES == {NGN, USD, GBP, GHS}

VALID_ACCOUNT_CHARS ==
  Range(LowerLetters) \cup Range(UpperLetters) \cup Range(Digits) \cup {"-", "_", ".", "@"}

(***************************************************************************)
(* findKeywordIndex: the first index >= startIndex whose word equals the   *)
(* keyword case-insensitively, or -1.                                      *)
(***************************************************************************)
FindKeywordIndex(words, keyword, startIndex) ==
  LET hits == { i \in startIndex..(Len(words) - 1) :
                  i >= 0 /\ ToLowerCase(words[i + 1]) = ToLowerCase(keyword) }
  IN  IF hits = {} THEN -1 ELSE CHOOSE i \in hits : \A j \in hits : i <= j

(***************************************************************************)
(* isValidAccountId, for a string.  Called with undefined it throws a      *)
(* TypeError on reading accountId.length (line 43): ReadsLengthOfUndefined.*)
(***************************************************************************)
IsValidAccountId(accountId) ==
  /\ \A i \in 1..Len(accountId) : accountId[i] \in VALID_ACCOUNT_CHARS
  /\ Len(accountId) > 0

ReadsLengthOfUndefined(accountId) == accountId = Undefined

(***************************************************************************)
(* Dates.  new Date(str) of a date-only ISO string is midnight UTC of that *)
(* day; V8 accepts months 1..12 and days 1..31 and lets the day overflow   *)
(* into the next month.  A string of any other shape goes to the engine's  *)
(* implementation-defined fallback parser; the pattern test of             *)
(* validateParsedData rejects every such string whatever the parser        *)
(* answers, so it is modelled as an invalid date.                          *)
(***************************************************************************)
\* /^\d{4}-\d{2}-\d{2}$/
DateRegexTest(str) ==
  /\ Len(str) = 10
  /\ \A i \in {1, 2, 3, 4, 6, 7, 9, 10} : IsDigit(str[i])
  /\ str[5] = "-" /\ str[8] = "-"

IsLeapYear(y) == y % 4 = 0 /\ (y % 100 # 0 \/ y % 400 = 0)

DaysBeforeMonth(m, leap) ==
  LET cumulative == <<0, 31, 59, 90, 120, 151, 181, 212, 243, 273, 304, 334>>
  IN  cumulative[m] + (IF leap /\ m > 2 THEN 1 ELSE 0)

\* the number of the day y-m-d, counted in days from a fixed origin
DayNumber(y, m, d) ==
  365 * y + ((y - 1) \div 4) - ((y - 1) \div 100) + ((y - 1) \div 400)
    + DaysBeforeMonth(m, IsLeapYear(y)) + d

\* new Date(str): nan, or the number of the day whose UTC midnight it is
NewDate(str) ==
  IF ~DateRegexTest(str) THEN [nan |-> TRUE, utcDay |-> 0]
  ELSE LET y == DigitsFrom(str, 1, 0)
           m == DigitsFrom(str, 6, 0)
           d == DigitsFrom(str, 9, 0)
       IN  IF m \in 1..12 /\ d \in 1..31
           THEN [nan |-> FALSE, utcDay |-> DayNumber(y, m, d)]
           ELSE [nan |-> TRUE, utcDay |-> 0]

\* getFullYear/getMonth/getDate read the local calendar day of an instant:
\* the day number of UTC midnight of utcDay seen at the given UTC offset
LocalDayOf(utcDay, offsetMinutes) ==
  (utcDay * (24 * 60) + offsetMinutes) \div (24 * 60)

(***************************************************************************)
(* shouldExecuteNow.  clock is what new Date() and the local-time getters  *)
(* read: today, the number of the current local calendar day, and offset,  *)
(* the process's UTC offset in minutes.                                    *)
(***************************************************************************)
ShouldExecuteNow(executeBy, clock) ==
  IF executeBy = Null THEN TRUE
  ELSE LET transactionDate == NewDate(executeBy)
           transactionDateOnly == LocalDayOf(transactionDate.utcDay, clock.offset)
           todayOnly == clock.today
       IN  transactionDateOnly <= todayOnly

(***************************************************************************)
(* The canonical instruction a parser returns, and the value the model     *)
(* keeps in its place when the parser throws.                              *)
(***************************************************************************)
Canonical(type, amount, currency, debitAccount, creditAccount, executeBy) ==
  [type |-> type, amount |-> amount, currency |-> currency,
   debit_account |-> debitAccount, credit_account |-> creditAccount,
   execute_by |-> executeBy]

NoParsed == Canonical("none", 0, Undefined, Undefined, Undefined, Null)

Thrown(error) == [error |-> error, parsed |-> NoParsed]
Returned(parsed) == [error |-> "none", parsed |-> parsed]

\* the optional "on <date>" clause (lines 154-158 and 216-220)
ExecuteByOf(words) ==
  LET onIndex == FindKeywordIndex(words, On, 0)
  IN  IF onIndex # -1 /\ At(words, onIndex + 1) # Undefined
      THEN At(words, onIndex + 1)
      ELSE Null

\* words[i]?.toLowerCase() !== 'account'
IsNotAccountKeyword(word) ==
  IF word = Undefined THEN TRUE ELSE ToLowerCase(word) # Account

\* AmountCurrencyError without the membership test of the currency: only a
\* missing currency word is rejected
AmountCurrencyErrorAnyCode(words, keywordIndex) ==
  LET amount == ParseInt(At(words, keywordIndex + 1))
      token == At(words, keywordIndex + 2)
  IN  IF amount.nan \/ amount.value <= 0 THEN "InvalidAmount"
      ELSE IF token = Undefined THEN "UnsupportedCurrency"
      ELSE "none"

\* the amount and currency checks, the same in both parsers, on the two
\* words after the leading keyword: the error thrown, or "none"
AmountCurrencyError(words, keywordIndex) ==
  LET amount == ParseInt(At(words, keywordIndex + 1))
      token == At(words, keywordIndex + 2)
      currency == IF token = Undefined THEN Undefined ELSE ToUpperCase(token)
  IN  IF amount.nan \/ amount.value <= 0 THEN "InvalidAmount"
      ELSE IF currency = Undefined \/ currency = <<>> \/ currency \notin SUPPORTED_CURRENCIES
      THEN "UnsupportedCurrency"
      ELSE "none"

(***************************************************************************)
(* parseDebitFormat.  ParseDebitFormat finds the anchors (lines 115-121),  *)
(* DebitFormatAt is the rest of the function (lines 123-167).              *)
(***************************************************************************)
DebitFormatAt(words, debitIndex, fromIndex, forIndex, creditIndex, toIndex) ==
  IF \/ debitIndex = -1
     \/ fromIndex = -1
     \/ forIndex = -1
     \/ creditIndex = -1
     \/ toIndex = -1
  THEN Thrown("InvalidKeywordOrder")
  ELSE IF AmountCurrencyError(words, debitIndex) # "none"
  THEN Thrown(AmountCurrencyError(words, debitIndex))
  ELSE IF IsNotAccountKeyword(At(words, fromIndex + 1))
  THEN Thrown("MissingKeyword")
  ELSE IF IsNotAccountKeyword(At(words, toIndex + 1))
  THEN Thrown("MissingKeyword")
  ELSE Returned(Canonical("DEBIT",
                          ParseInt(At(words, debitIndex + 1)).value,
                          ToUpperCase(At(words, debitIndex + 2)),
                          At(words, fromIndex + 1 + 1),
                          At(words, toIndex + 1 + 1),
                          ExecuteByOf(words)))

\* the 'to' search starts at creditIndex, the index after the first 'for'
DebitToSearch(words, debitIndex, fromIndex, forIndex) ==
  DebitFormatAt(words, debitIndex, fromIndex, forIndex, forIndex + 1,
                FindKeywordIndex(words, To, forIndex + 1))

ParseDebitFormat(words) ==
  DebitToSearch(words,
                FindKeywordIndex(words, Debit, 0),
                FindKeywordIndex(words, From, 0),
                FindKeywordIndex(words, For, 0))

(***************************************************************************)
(* parseCreditFormat.  ParseCreditFormat finds the anchors (lines 177-183),*)
(* CreditFormatAt is the rest of the function (lines 185-229).             *)
(***************************************************************************)
CreditFormatAt(words, creditIndex, toIndex, forIndex, debitIndex, fromIndex) ==
  IF \/ creditIndex = -1
     \/ toIndex = -1
     \/ forIndex = -1
     \/ debitIndex = -1
     \/ fromIndex = -1
  THEN Thrown("InvalidKeywordOrder")
  ELSE IF AmountCurrencyError(words, creditIndex) # "none"
  THEN Thrown(AmountCurrencyError(words, creditIndex))
  ELSE IF IsNotAccountKeyword(At(words, toIndex + 1))
  THEN Thrown("MissingKeyword")
  ELSE IF IsNotAccountKeyword(At(words, fromIndex + 1))
  THEN Thrown("MissingKeyword")
  ELSE Returned(Canonical("CREDIT",
                          ParseInt(At(words, creditIndex + 1)).value,
                          ToUpperCase(At(words, creditIndex + 2)),
                          At(words, fromIndex + 1 + 1),
                          At(words, toIndex + 1 + 1),
                          ExecuteByOf(words)))

\* the 'from' search starts at debitIndex, the index after the first 'for'
CreditFromSearch(words, creditIndex, toIndex, forIndex) ==
  CreditFormatAt(words, creditIndex, toIndex, forIndex, forIndex + 1,
                 FindKeywordIndex(words, From, forIndex + 1))

ParseCreditFormat(words) ==
  CreditFromSearch(words,
                   FindKeywordIndex(words, Credit, 0),
                   FindKeywordIndex(words, To, 0),
                   FindKeywordIndex(words, For, 0))

(***************************************************************************)
(* parseInstructionText: the format detector on the lowercased text, then  *)
(* the parser of the detected format on the words.                         *)
(***************************************************************************)
IsDebitFormat(lowerInstruction) ==
  /\ Includes(lowerInstruction, Debit)
  /\ Includes(lowerInstruction, FromAccount)
  /\ Includes(lowerInstruction, ForCreditToAccount)

IsCreditFormat(lowerInstruction) ==
  /\ Includes(lowerInstruction, Credit)
  /\ Includes(lowerInstruction, ToAccount)
  /\ Includes(lowerInstruction, ForDebitFromAccount)

Words(instruction) == FilterNonEmpty(Split(instruction))

\* ParseInstructionText with the CREDIT check made first
ParseInstructionTextCreditFirst(instruction) ==
  LET words == Words(instruction)
      lowerInstruction == ToLowerCase(instruction)
  IN  IF IsCreditFormat(lowerInstruction) THEN ParseCreditFormat(words)
      ELSE IF IsDebitFormat(lowerInstruction) THEN ParseDebitFormat(words)
      ELSE Thrown("MalformedInstruction")

ParseInstructionText(instruction) ==
  LET words == Words(instruction)
      lowerInstruction == ToLowerCase(instruction)
  IN  IF IsDebitFormat(lowerInstruction) THEN ParseDebitFormat(words)
      ELSE IF IsCreditFormat(lowerInstruction) THEN ParseCreditFormat(words)
      ELSE Thrown("MalformedInstruction")

(***************************************************************************)
(* validateParsedData: the error thrown, or "none".                        *)
(***************************************************************************)
\* accounts.find((acc) => acc.id === id): the index of the first match, 0 if none
FindAccount(accounts, id) ==
  LET hits == { i \in DOMAIN accounts : accounts[i].id = id }
  IN  IF hits = {} THEN 0 ELSE CHOOSE i \in hits : \A j \in hits : i <= j

\* lines 270-280
DateFormatError(executeBy) ==
  IF executeBy = Null THEN "none"
  ELSE IF NewDate(executeBy).nan THEN "InvalidDateFormat"
  ELSE IF ~DateRegexTest(executeBy) THEN "InvalidDateFormat"
  ELSE "none"

\* ValidateParsedData with the same-account check made after the existence
\* checks
ValidateParsedDataExistenceFirst(parsed, accounts) ==
  LET debitAccount == FindAccount(accounts, parsed.debit_account)
      creditAccount == FindAccount(accounts, parsed.credit_account)
  IN  IF ReadsLengthOfUndefined(parsed.debit_account) THEN "TypeError"
      ELSE IF ~IsValidAccountId(parsed.debit_account) THEN "InvalidAccountId"
      ELSE IF ReadsLengthOfUndefined(parsed.credit_account) THEN "TypeError"
      ELSE IF ~IsValidAccountId(parsed.credit_account) THEN "InvalidAccountId"
      ELSE IF debitAccount = 0 THEN "AccountNotFound"
      ELSE IF creditAccount = 0 THEN "AccountNotFound"
      ELSE IF parsed.debit_account = parsed.credit_account THEN "SameAccountError"
      ELSE IF ToUpperCase(accounts[debitAccount].currency) # parsed.currency
      THEN "CurrencyMismatch"
      ELSE IF ToUpperCase(accounts[creditAccount].currency) # parsed.currency
      THEN "CurrencyMismatch"
      ELSE IF accounts[debitAccount].balance < parsed.amount THEN "InsufficientFunds"
      ELSE DateFormatError(parsed.execute_by)

ValidateParsedData(parsed, accounts) ==
  LET debitAccount == FindAccount(accounts, parsed.debit_account)
      creditAccount == FindAccount(accounts, parsed.credit_account)
  IN  IF ReadsLengthOfUndefined(parsed.debit_account) THEN "TypeError"
      ELSE IF ~IsValidAccountId(parsed.debit_account) THEN "InvalidAccountId"
      ELSE IF ReadsLengthOfUndefined(parsed.credit_account) THEN "TypeError"
      ELSE IF ~IsValidAccountId(parsed.credit_account) THEN "InvalidAccountId"
      ELSE IF parsed.debit_account = parsed.credit_account THEN "SameAccountError"
      ELSE IF debitAccount = 0 THEN "AccountNotFound"
      ELSE IF creditAccount = 0 THEN "AccountNotFound"
      ELSE IF ToUpperCase(accounts[debitAccount].currency) # parsed.currency
      THEN "CurrencyMismatch"
      ELSE IF ToUpperCase(accounts[creditAccount].currency) # parsed.currency
      THEN "CurrencyMismatch"
      ELSE IF accounts[debitAccount].balance < parsed.amount THEN "InsufficientFunds"
      ELSE DateFormatError(parsed.execute_by)

(***************************************************************************)
(* processAccounts                                                         *)
(***************************************************************************)
\* ProjectedAccount without the else-if branch of the credit account
ProjectedAccountDebitOnly(account, parsed, shouldExecute) ==
  LET balanceBefore == account.balance
      balanceAfter ==
        IF shouldExecute /\ account.id = parsed.debit_account
        THEN balanceBefore - parsed.amount
        ELSE balanceBefore
  IN  [id |-> account.id, balance |-> balanceAfter, balance_before |-> balanceBefore,
       currency |-> ToUpperCase(account.currency)]

ProjectedAccount(account, parsed, shouldExecute) ==
  LET balanceBefore == account.balance
      balanceAfter ==
        IF shouldExecute
        THEN IF account.id = parsed.debit_account THEN balanceBefore - parsed.amount
             ELSE IF account.id = parsed.credit_account THEN balanceBefore + parsed.amount
             ELSE balanceBefore
        ELSE balanceBefore
  IN  [id |-> account.id, balance |-> balanceAfter, balance_before |-> balanceBefore,
       currency |-> ToUpperCase(account.currency)]

IsReferenced(account, parsed) ==
  account.id = parsed.debit_account \/ account.id = parsed.credit_account

ProcessAccounts(accounts, parsed, shouldExecute) ==
  LET referenced == SelectSeq(accounts, LAMBDA account : IsReferenced(account, parsed))
  IN  [ i \in DOMAIN referenced |-> ProjectedAccount(referenced[i], parsed, shouldExecute) ]

(***************************************************************************)
(* The response of parseInstruction (lines 336-349).  status_reason is one *)
(* of two PaymentMessages entries, named here by their keys.               *)
(***************************************************************************)
Response(parsed, shouldExecute, processedAccounts) ==
  [type |-> parsed.type,
   amount |-> parsed.amount,
   currency |-> parsed.currency,
   debit_account |-> parsed.debit_account,
   credit_account |-> parsed.credit_account,
   execute_by |-> parsed.execute_by,
   status |-> IF shouldExecute THEN "successful" ELSE "pending",
   status_reason |-> IF shouldExecute THEN "TRANSACTION_SUCCESSFUL" ELSE "TRANSACTION_PENDING",
   status_code |-> IF shouldExecute THEN "AP00" ELSE "AP02",
   accounts |-> processedAccounts]

NoResponse ==
  [type |-> "none", amount |-> 0, currency |-> Undefined, debit_account |-> Undefined,
   credit_account |-> Undefined, execute_by |-> Null, status |-> "none",
   status_reason |-> "none", status_code |-> "none", accounts |-> <<>>]

NoClock == [today |-> 0, offset |-> 0]

(***************************************************************************)
(* The requests the model runs parseInstruction on.                        *)
(***************************************************************************)
RECURSIVE Join(_)
\* the words separated by single spaces
Join(ws) ==
  IF ws = <<>> THEN <<>>
  ELSE IF Len(ws) = 1 THEN ws[1]
  ELSE ws[1] \o Space \o Join(Tail(ws))

RECURSIVE Decimal(_)
\* the decimal numeral of a natural number
Decimal(n) ==
  IF n < 10 THEN <<Digits[n + 1]>>
  ELSE Decimal(n \div 10) \o <<Digits[(n % 10) + 1]>>

\* "2024-01-dd"
DateString(d) ==
  <<"2","0","2","4","-","0","1","-">> \o (IF d < 10 THEN <<"0">> ELSE <<>>) \o Decimal(d)

IdA == <<"A">>
IdB == <<"B">>
IdOn == <<"o","n">>
IdHash == <<"a","#">>

AmountWords ==
  { Decimal(n) : n \in 0..MaxAmount } \cup { <<"a","b","c">>, <<"1","x">> }
CurrencyWords == { NGN, <<"n","g","n">>, <<"X","Y","Z">> }
IdWords == { IdA, IdB, IdOn, IdHash }
\* Null: no "on" clause
DateWords ==
  { Null, DateString(1), <<"2","0","2","4","-","1","3","-","4","0">>,
    <<"2","0","2","4","-","0","1","-","0","1","T","1","0",":","0","0">> }

OnClause(date) == IF date = Null THEN <<>> ELSE <<On, date>>

DebitPhrase(amt, cur, d, c, date) ==
  Join(<<Debit, amt, cur, From, Account, d, For, Credit, To, Account, c>> \o OnClause(date))

CreditPhrase(amt, cur, d, c, date) ==
  Join(<<Credit, amt, cur, To, Account, c, For, Debit, From, Account, d>> \o OnClause(date))

\* the clauses of the DEBIT phrasing with the leading clause moved last
DebitReordered(amt, cur, d, c, date) ==
  Join(<<From, Account, d, For, Credit, To, Account, c, Debit, amt, cur>> \o OnClause(date))

CreditReordered(amt, cur, d, c, date) ==
  Join(<<To, Account, c, For, Debit, From, Account, d, Credit, amt, cur>> \o OnClause(date))

\* a DEBIT phrasing followed by the CREDIT phrasing's second clause
BothPhrases(amt, cur, d, c, date) ==
  Join(<<Debit, amt, cur, From, Account, d, For, Credit, To, Account, c,
         For, Debit, From, Account, d>> \o OnClause(date))

\* the text ends right after the last "account"
DebitNoCreditId(amt, cur, d) ==
  Join(<<Debit, amt, cur, From, Account, d, For, Credit, To, Account>>)

CreditNoDebitId(amt, cur, c) ==
  Join(<<Credit, amt, cur, To, Account, c, For, Debit, From, Account>>)

\* the spec's example casing: "Debit 500 NGN from Account A001 ..."
Capitalised(amt, cur, d, c, date) ==
  Join(<<<<"D","e","b","i","t">>, amt, cur, From, <<"A","c","c","o","u","n","t">>, d,
         <<"F","O","R">>, Credit, To, <<"A","c","c","o","u","n","t">>, c>>
       \o (IF date = Null THEN <<>> ELSE <<<<"O","N">>, date>>))

\* spaces around the text and a run of two spaces between two words
Padded(amt, cur, d, c, date) ==
  Space \o Join(<<Debit, amt>>) \o Space \o Space
        \o Join(<<cur, From, Account, d, For, Credit, To, Account, c>> \o OnClause(date))
        \o Space

\* a run of two spaces inside "from account"
DoubleSpaced(amt, cur, d, c, date) ==
  Join(<<Debit, amt, cur, From>>) \o Space \o Space
        \o Join(<<Account, d, For, Credit, To, Account, c>> \o OnClause(date))

\* "debit" only as part of a longer word
GluedKeyword(amt, cur, d, c, date) ==
  Join(<<<<"p","r","e">> \o Debit, amt, cur, From, Account, d, For, Credit, To, Account, c>>
       \o OnClause(date))

\* "from accounts": the phrase is in the text, the word is not "account"
PluralAccount(amt, cur, d, c, date) ==
  Join(<<Debit, amt, cur, From, Account \o <<"s">>, d, For, Credit, To, Account, c>>
       \o OnClause(date))

NoFormat(amt, cur, d, c, date) ==
  Join(<<<<"s","e","n","d">>, amt, cur, To, c>> \o OnClause(date))

ParserInstructions ==
  UNION { { DebitPhrase(amt, cur, d, c, date),
            CreditPhrase(amt, cur, d, c, date),
            DebitReordered(amt, cur, d, c, date),
            CreditReordered(amt, cur, d, c, date),
            BothPhrases(amt, cur, d, c, date),
            DebitNoCreditId(amt, cur, d),
            CreditNoDebitId(amt, cur, c),
            Capitalised(amt, cur, d, c, date),
            Padded(amt, cur, d, c, date),
            DoubleSpaced(amt, cur, d, c, date),
            GluedKeyword(amt, cur, d, c, date),
            PluralAccount(amt, cur, d, c, date),
            NoFormat(amt, cur, d, c, date) } :
          <<amt, cur, d, c, date>> \in
            AmountWords \X CurrencyWords \X IdWords \X IdWords \X DateWords }

AccountOf(id, balance, currency) == [id |-> id, balance |-> balance, currency |-> currency]

\* the accounts every parser request is run against
ParserAccounts ==
  <<AccountOf(IdA, MaxAmount + 2, <<"n","g","n">>), AccountOf(IdB, 0, NGN),
    AccountOf(IdOn, MaxAmount, NGN)>>

ParserRequests ==
  { [instruction |-> i, accounts |-> ParserAccounts] : i \in ParserInstructions }

\* the accounts of the validator requests: lowercase-naira accounts of every
\* balance, and empty dollar accounts
Accounts ==
  { AccountOf(id, balance, <<"n","g","n">>) : id \in {IdA, IdB}, balance \in 0..MaxAmount }
    \cup { AccountOf(id, 0, USD) : id \in {IdA, IdB} }

\* every list of at most MaxAccounts of them

AccountLists == UNION { [1..n -> Accounts] : n \in 0..MaxAccounts }

ValidatorInstructions ==
  { DebitPhrase(Decimal(n), NGN, d, c, Null) : n \in 1..MaxAmount, d \in {IdA, IdB}, c \in {IdA, IdB} }

ValidatorRequests ==
  { [instruction |-> i, accounts |-> a] : i \in ValidatorInstructions, a \in AccountLists }

\* dated instructions over the calendar window
SchedulerInstructions ==
  UNION { { DebitPhrase(Decimal(1), NGN, IdA, IdB, DateString(day)),
            CreditPhrase(Decimal(1), NGN, IdA, IdB, DateString(day)) } : day \in 1..MaxDay }

SchedulerRequests ==
  { [instruction |-> i, accounts |-> ParserAccounts] : i \in SchedulerInstructions }

Requests == ParserRequests \cup ValidatorRequests \cup SchedulerRequests

\* what new Date() may read: a local calendar day of the window (January
\* 2024) and the UTC offset of the process's time zone, in minutes
ClockDays == { DayNumber(2024, 1, day) : day \in 1..MaxDay }
UtcOffsets == { -300, 0, 60 }
Clocks == { [today |-> t, offset |-> o] : t \in ClockDays, o \in UtcOffsets }

(***************************************************************************)
(* The state machine: one call of parseInstruction.                        *)
(***************************************************************************)
VARIABLES
  instruction,    \* data.instruction
  accounts,       \* data.accounts
  pc,             \* where the call is: start, parsed, validated, scheduled, done, failed
  parsed,         \* the canonical instruction
  clock,          \* what shouldExecuteNow read from the clock, NoClock if it read nothing
  shouldExecute,
  error,          \* the error the call threw, "none" if it has thrown none
  response        \* the returned response, NoResponse if none was returned

vars == <<instruction, accounts, pc, parsed, clock, shouldExecute, error, response>>

Init ==
  /\ \E request \in Requests :
       /\ instruction = request.instruction
       /\ accounts = request.accounts
  /\ pc = "start"
  /\ parsed = NoParsed
  /\ clock = NoClock
  /\ shouldExecute = FALSE
  /\ error = "none"
  /\ response = NoResponse

\* lines 323-328: trim, then parseInstructionText
ParseText ==
  /\ pc = "start"
  /\ \E result \in {ParseInstructionText(Trim(instruction))} :
       /\ parsed' = result.parsed
       /\ error' = result.error
       /\ pc' = IF result.error = "none" THEN "parsed" ELSE "failed"
  /\ UNCHANGED <<instruction, accounts, clock, shouldExecute, response>>

\* line 330
Validate ==
  /\ pc = "parsed"
  /\ error' = ValidateParsedData(parsed, accounts)
  /\ pc' = IF error' = "none" THEN "validated" ELSE "failed"
  /\ UNCHANGED <<instruction, accounts, parsed, clock, shouldExecute, response>>

\* line 332: without an execute_by the clock is not read
Schedule ==
  /\ pc = "validated"
  /\ \E c \in (IF parsed.execute_by = Null THEN {NoClock} ELSE Clocks) :
       /\ clock' = c
       /\ shouldExecute' = ShouldExecuteNow(parsed.execute_by, c)
  /\ pc' = "scheduled"
  /\ UNCHANGED <<instruction, accounts, parsed, error, response>>

\* lines 334-357
Respond ==
  /\ pc = "scheduled"
  /\ response' = Response(parsed, shouldExecute, ProcessAccounts(accounts, parsed, shouldExecute))
  /\ pc' = "done"
  /\ UNCHANGED <<instruction, accounts, parsed, clock, shouldExecute, error>>

Next == ParseText \/ Validate \/ Schedule \/ Respond

Spec == Init /\ [][Next]_vars

(***************************************************************************)
(* Notions the claims are stated in.                                       *)
(***************************************************************************)
Finished == pc \in {"done", "failed"}

\* parseInstructionText has returned a canonical instruction
ParseSucceeded == parsed.type # "none"

\* parseInstructionText has just returned or thrown
JustParsed == pc = "parsed" \/ (pc = "failed" /\ ~ParseSucceeded)

\* validateParsedData has run
Validated == ParseSucceeded /\ pc \in {"validated", "scheduled", "done", "failed"}

\* what parseInstructionText did: kept by parsed and, when it threw, by error
ParseOutcome == IF ParseSucceeded THEN Returned(parsed) ELSE Thrown(error)

TrimmedText == Trim(instruction)
LowerText == ToLowerCase(TrimmedText)
TextWords == Words(TrimmedText)

\* the supplied accounts the instruction refers to, in the supplied order
SuppliedReferenced ==
  SelectSeq(accounts, LAMBDA a : a.id \in {parsed.debit_account, parsed.credit_account})

\* entry i of the returned accounts is the projection of the i-th supplied
\* referenced account, with the supplied balance as balance_before
EntriesMatchSupplied ==
  /\ Len(response.accounts) = Len(SuppliedReferenced)
  /\ \A i \in DOMAIN response.accounts :
       /\ response.accounts[i].id = SuppliedReferenced[i].id
       /\ response.accounts[i].balance_before = SuppliedReferenced[i].balance

DeltasApplied ==
  \A i \in DOMAIN response.accounts :
    LET e == response.accounts[i]
    IN  /\ e.id = parsed.debit_account => e.balance = e.balance_before - parsed.amount
        /\ e.id = parsed.credit_account => e.balance = e.balance_before + parsed.amount

BalancesUnchanged ==
  \A i \in DOMAIN response.accounts :
    response.accounts[i].balance = response.accounts[i].balance_before

HasEntryFor(id) == \E i \in DOMAIN response.accounts : response.accounts[i].id = id

Successful == response.status = "successful" /\ response.status_code = "AP00"
Pending == response.status = "pending" /\ response.status_code = "AP02"

(***************************************************************************)
(* C1.  A DEBIT-format instruction without execute_by that passes          *)
(* validation is executed at once: the response is successful/AP00, the    *)
(* debit account's entry has balance = balance_before - amount and the     *)
(* credit account's entry has balance = balance_before + amount, where     *)
(* balance_before is the supplied balance.                                 *)
(***************************************************************************)
C1_DebitExecutesNow ==
  (parsed.type = "DEBIT" /\ parsed.execute_by = Null) =>
    /\ pc = "scheduled" => shouldExecute
    /\ pc = "done" =>
         /\ Successful
         /\ HasEntryFor(parsed.debit_account)
         /\ HasEntryFor(parsed.credit_account)
         /\ EntriesMatchSupplied
         /\ DeltasApplied

C1_Witness ==
  /\ pc = "done"
  /\ parsed.type = "DEBIT"
  /\ parsed.execute_by = Null
  /\ \E i, j \in DOMAIN response.accounts :
       /\ response.accounts[i].id = parsed.debit_account
       /\ response.accounts[i].balance < response.accounts[i].balance_before
       /\ response.accounts[j].id = parsed.credit_account
       /\ response.accounts[j].balance > response.accounts[j].balance_before

(***************************************************************************)
(* C2.  An instruction that passes validation and whose execute_by date is *)
(* strictly after the current date of the clock is answered pending/AP02   *)
(* with every balance equal to balance_before; one whose execute_by is the *)
(* current date or an earlier one is answered successful/AP00 with the     *)
(* deltas applied.  Fails where the process runs west of UTC.              *)
(***************************************************************************)
\* the number of the calendar day execute_by names
ExecuteByDay == NewDate(parsed.execute_by).utcDay

C2_FutureDatePending ==
  (pc = "done" /\ parsed.execute_by # Null) =>
    IF ExecuteByDay > clock.today
    THEN Pending /\ EntriesMatchSupplied /\ BalancesUnchanged
    ELSE Successful /\ EntriesMatchSupplied /\ DeltasApplied

(***************************************************************************)
(* C3.  Whenever the debit account id of the parsed instruction equals its *)
(* credit account id and that id is well-formed, parseInstruction fails    *)
(* with SameAccountError, whether or not the account exists, its currency  *)
(* matches, its funds suffice or the date is well-formed.                  *)
(***************************************************************************)
C3_SameAccountWellFormedId ==
  ( /\ Validated
    /\ parsed.debit_account = parsed.credit_account
    /\ IsValidAccountId(parsed.debit_account) ) =>
    pc = "failed" /\ error = "SameAccountError"

\* the rejected account is not among the supplied accounts
C3_Witness ==
  /\ pc = "failed"
  /\ error = "SameAccountError"
  /\ parsed.debit_account = parsed.credit_account
  /\ FindAccount(accounts, parsed.debit_account) = 0

\* the claim as stated: also when the id is not well-formed
C3_SameAccountAlways ==
  (Validated /\ parsed.debit_account = parsed.credit_account) =>
    pc = "failed" /\ error = "SameAccountError"

(***************************************************************************)
(* C4.  An instruction of a recognized format whose anchor keywords are    *)
(* all found, whose amount token parses to a positive integer and whose    *)
(* currency token (the second word after the leading debit/credit keyword, *)
(* uppercased) is outside {NGN, USD, GBP, GHS} fails with                  *)
(* UnsupportedCurrency, whatever the account, id and date tokens are.      *)
(***************************************************************************)
RecognizedFormat(lowerText) ==
  IF IsDebitFormat(lowerText) THEN "DEBIT"
  ELSE IF IsCreditFormat(lowerText) THEN "CREDIT"
  ELSE "none"

\* the index of the leading keyword of the recognized format
LeadingIndex(words, format) ==
  FindKeywordIndex(words, IF format = "DEBIT" THEN Debit ELSE Credit, 0)

\* every other anchor lookup of the format's parser finds its keyword
OtherAnchorsFound(words, format, forIndex) ==
  /\ forIndex # -1
  /\ FindKeywordIndex(words, From, IF format = "DEBIT" THEN 0 ELSE forIndex + 1) # -1
  /\ FindKeywordIndex(words, To, IF format = "DEBIT" THEN forIndex + 1 ELSE 0) # -1

AmountTokenPositive(amount) == ~amount.nan /\ amount.value > 0

CurrencyTokenUnsupported(token) ==
  token = Undefined \/ ToUpperCase(token) \notin SUPPORTED_CURRENCIES

UnsupportedAfterAmount(words, format, leadingIndex) ==
  ( /\ format # "none"
    /\ leadingIndex # -1
    /\ CurrencyTokenUnsupported(At(words, leadingIndex + 2))
    /\ AmountTokenPositive(ParseInt(At(words, leadingIndex + 1)))
    /\ OtherAnchorsFound(words, format, FindKeywordIndex(words, For, 0)) ) =>
    pc = "failed" /\ error = "UnsupportedCurrency"

UnsupportedAlways(words, format, leadingIndex) ==
  ( /\ format # "none"
    /\ leadingIndex # -1
    /\ CurrencyTokenUnsupported(At(words, leadingIndex + 2)) ) =>
    pc = "failed" /\ error = "UnsupportedCurrency"

WithLeadingIndex(Rule(_, _, _), words, format) ==
  Rule(words, format, LeadingIndex(words, format))

C4_UnsupportedCurrencyAfterAmount ==
  JustParsed =>
    WithLeadingIndex(UnsupportedAfterAmount, TextWords, RecognizedFormat(LowerText))

\* the account id tokens are ill-formed too
C4_Witness ==
  /\ pc = "failed"
  /\ error = "UnsupportedCurrency"
  /\ RecognizedFormat(LowerText) = "CREDIT"
  /\ Includes(instruction, Account \o Space \o IdHash)

\* the claim as stated: whatever the amount token is
C4_UnsupportedCurrencyAlways ==
  JustParsed =>
    WithLeadingIndex(UnsupportedAlways, TextWords, RecognizedFormat(LowerText))

(***************************************************************************)
(* C5.  Every call ends either returning the complete response or raising  *)
(* one of the typed failures of the taxonomy.  Fails when the word that    *)
(* should hold an account id is missing after "account".                   *)
(***************************************************************************)
TypedFailures ==
  { "MalformedInstruction", "InvalidKeywordOrder", "InvalidAmount", "UnsupportedCurrency",
    "MissingKeyword", "InvalidAccountId", "SameAccountError", "AccountNotFound",
    "CurrencyMismatch", "InsufficientFunds", "InvalidDateFormat" }

CompleteResponse ==
  /\ response.type \in {"DEBIT", "CREDIT"}
  /\ response.amount > 0
  /\ response.currency \in SUPPORTED_CURRENCIES
  /\ IsValidAccountId(response.debit_account)
  /\ IsValidAccountId(response.credit_account)
  /\ response.status \in {"successful", "pending"}
  /\ response.status_code \in {"AP00", "AP02"}
  /\ EntriesMatchSupplied

C5_ResponseOrTypedFailure ==
  /\ pc = "done" => error = "none" /\ CompleteResponse
  /\ pc = "failed" => error \in TypedFailures /\ response = NoResponse

(***************************************************************************)
(* C6.  The DEBIT phrasing and the CREDIT phrasing of the same amount,     *)
(* currency, debit account, credit account and optional date parse to      *)
(* canonical instructions that differ only in type.  Fails for an account  *)
(* id that is the word "on".                                               *)
(***************************************************************************)
\* the date word of a DEBIT phrasing of 13 words, Null for one of 11 words
DateSlot(words) == IF Len(words) = 13 THEN words[13] ELSE Null

\* the text is the DEBIT phrasing of the words at its slots
IsDebitPhrase(words) ==
  /\ Len(words) \in {11, 13}
  /\ instruction = DebitPhrase(words[2], words[3], words[6], words[11], DateSlot(words))

SameButType(one, other) ==
  /\ one.error = "none"
  /\ other.error = "none"
  /\ one.parsed.type = "DEBIT"
  /\ other.parsed.type = "CREDIT"
  /\ one.parsed.amount = other.parsed.amount
  /\ one.parsed.currency = other.parsed.currency
  /\ one.parsed.debit_account = other.parsed.debit_account
  /\ one.parsed.credit_account = other.parsed.credit_account
  /\ one.parsed.execute_by = other.parsed.execute_by

\* both phrasings are rejected, or both parse and agree
PhrasingsAgree(one, other) ==
  (one.error = "none" \/ other.error = "none") => SameButType(one, other)

CreditPhrasingOf(words) ==
  ParseInstructionText(
    Trim(CreditPhrase(words[2], words[3], words[6], words[11], DateSlot(words))))

DebitPhraseAgrees(words) ==
  IsDebitPhrase(words) => PhrasingsAgree(ParseOutcome, CreditPhrasingOf(words))

C6_PhrasingsParseAlike == JustParsed => DebitPhraseAgrees(TextWords)

(***************************************************************************)
(* C7.  A successful request returns exactly two account entries, one for  *)
(* the debit account and one for the credit account, in the order of the   *)
(* supplied list, and none for any other account.  Fails for a supplied    *)
(* list in which a referenced id occurs more than once.                    *)
(***************************************************************************)
C7_ExactlyTwoEntries ==
  pc = "done" =>
    /\ Len(response.accounts) = 2
    /\ { response.accounts[i].id : i \in DOMAIN response.accounts }
         = {parsed.debit_account, parsed.credit_account}
    /\ \E i, j \in DOMAIN accounts :
         /\ i < j
         /\ accounts[i].id = response.accounts[1].id
         /\ accounts[j].id = response.accounts[2].id

(***************************************************************************)
(* C8.  validateParsedData raises the failure of the lowest-numbered       *)
(* violated rule of the nine, and succeeds only when none is violated.     *)
(* Fails for an instruction whose account id is missing: rule 1 or 2 is    *)
(* violated and the failure is not InvalidAccountId (see C5).              *)
(***************************************************************************)
WellFormedId(id) ==
  /\ id # Undefined
  /\ Len(id) > 0
  /\ \A i \in DOMAIN id : id[i] \in VALID_ACCOUNT_CHARS

Exists(id) == \E i \in DOMAIN accounts : accounts[i].id = id

\* the supplied account the validator looks at for an id: the first with it
Supplied(id) == accounts[CHOOSE i \in DOMAIN accounts :
                           accounts[i].id = id /\ \A j \in 1..(i - 1) : accounts[j].id # id]

WellFormedDate(date) ==
  /\ DateRegexTest(date)
  /\ DigitsFrom(date, 6, 0) \in 1..12
  /\ DigitsFrom(date, 9, 0) \in 1..31

\* the nine rules in order: whether the rule is violated, and its failure
Rules ==
  <<
    <<~WellFormedId(parsed.debit_account), "InvalidAccountId">>,
    <<~WellFormedId(parsed.credit_account), "InvalidAccountId">>,
    <<parsed.debit_account = parsed.credit_account, "SameAccountError">>,
    <<~Exists(parsed.debit_account), "AccountNotFound">>,
    <<~Exists(parsed.credit_account), "AccountNotFound">>,
    <<Exists(parsed.debit_account)
        /\ ToUpperCase(Supplied(parsed.debit_account).currency) # parsed.currency,
      "CurrencyMismatch">>,
    <<Exists(parsed.credit_account)
        /\ ToUpperCase(Supplied(parsed.credit_account).currency) # parsed.currency,
      "CurrencyMismatch">>,
    <<Exists(parsed.debit_account)
        /\ Supplied(parsed.debit_account).balance < parsed.amount,
      "InsufficientFunds">>,
    <<parsed.execute_by # Null /\ ~WellFormedDate(parsed.execute_by), "InvalidDateFormat">>
  >>

FirstViolated(rules) ==
  IF \A k \in DOMAIN rules : ~rules[k][1] THEN "none"
  ELSE rules[CHOOSE k \in DOMAIN rules :
               rules[k][1] /\ \A j \in 1..(k - 1) : ~rules[j][1]][2]

\* the failure validateParsedData raised, "none" if it returned
ValidationFailure == IF pc = "failed" THEN error ELSE "none"

C8_FirstViolatedRuleReported == Validated => ValidationFailure = FirstViolated(Rules)

(***************************************************************************)
(* C9.  A parser returns a canonical instruction only when its anchors     *)
(* occur in order in the words: for the DEBIT format a "from" and a "for"  *)
(* after "debit" and a "to" after that "for"; for the CREDIT format a "to" *)
(* and a "for" after "credit" and a "from" after that "for".  Fails: the   *)
(* anchors are searched from the start of the words, not from "debit".     *)
(***************************************************************************)
AnchorsAfter(words, second, last, leadingIndex, forIndex) ==
  /\ leadingIndex # -1
  /\ FindKeywordIndex(words, second, leadingIndex + 1) # -1
  /\ forIndex # -1
  /\ FindKeywordIndex(words, last, forIndex + 1) # -1

AnchorsInOrder(words, leading, second, last, leadingIndex) ==
  AnchorsAfter(words, second, last, leadingIndex,
               FindKeywordIndex(words, For, leadingIndex + 1))

C9_AnchorsInOrder ==
  /\ (JustParsed /\ parsed.type = "DEBIT") =>
       AnchorsInOrder(TextWords, Debit, From, To, FindKeywordIndex(TextWords, Debit, 0))
  /\ (JustParsed /\ parsed.type = "CREDIT") =>
       AnchorsInOrder(TextWords, Credit, To, From, FindKeywordIndex(TextWords, Credit, 0))

(***************************************************************************)
(* C10.  The two checks of the format detector are not mutually exclusive; *)
(* the DEBIT check is made first and takes precedence: whenever the        *)
(* lowercased text satisfies the DEBIT condition, parseInstructionText     *)
(* does what parseDebitFormat does on the words, also when the text        *)
(* satisfies the CREDIT condition too.                                     *)
(***************************************************************************)
C10_DebitCheckedFirst ==
  (JustParsed /\ IsDebitFormat(LowerText)) => ParseOutcome = ParseDebitFormat(TextWords)

\* both conditions hold and the two parsers disagree
C10_Witness ==
  /\ JustParsed
  /\ IsDebitFormat(LowerText)
  /\ IsCreditFormat(LowerText)
  /\ ParseSucceeded
  /\ ParseCreditFormat(TextWords).error # "none"

\* the claim as stated: no text satisfies both conditions
C10_MutuallyExclusive ==
  JustParsed => ~(IsDebitFormat(LowerText) /\ IsCreditFormat(LowerText))

====
